---- MODULE Spec2Model ----
(***************************************************************************)
(* Model of task-cli.cpp: the Task record, the hand-rolled JSON codec       *)
(* (escapeJsonString, unescapeJsonString, findJsonValue, loadTasks,         *)
(* saveTasks), getNextId, the command operations and main's dispatch.       *)
(*                                                                         *)
(* A std::string is a sequence of one-character strings.  Positions are    *)
(* 0-based as in the source: position p of s is s[p+1].                    *)
(***************************************************************************)
EXTENDS Integers, Sequences, FiniteSets, TLC

\* ------------------------------------------------------------------------
\* Characters and program constants
\* ------------------------------------------------------------------------

DQ == "\""
BS == "\\"
NL == "\n"
SP == " "

\* std::numeric_limits<int>::max() and min()
IntMax == 2147483647
IntMin == -IntMax - 1

\* std::string::npos: the largest value of the position type (here the
\* largest integer TLC represents; every length is far below it).
NPOS == 2147483647

\* The characters std::isspace accepts and the set " \t\n\r\f\v" of the
\* find_*_not_of calls (the vertical tab is not in the model's alphabet).
Whitespace == {" ", "\t", "\n", "\r", "\f"}

Digits == <<"0", "1", "2", "3", "4", "5", "6", "7", "8", "9">>

IsDigit(c) == \E i \in 1..10 : Digits[i] = c

DigitVal(c) == (CHOOSE i \in 1..10 : Digits[i] = c) - 1

ValidStatuses == { <<"t","o","d","o">>,
                   <<"i","n","-","p","r","o","g","r","e","s","s">>,
                   <<"d","o","n","e">> }

StTodo == <<"t","o","d","o">>
StInProgress == <<"i","n","-","p","r","o","g","r","e","s","s">>
StDone == <<"d","o","n","e">>

\* ------------------------------------------------------------------------
\* std::string operations used by the codec
\* ------------------------------------------------------------------------

MinOf(a, b) == IF a <= b THEN a ELSE b

\* s.find(c, from)
FindChar(s, c, from) ==
    IF \E p \in from..(Len(s) - 1) : s[p + 1] = c
    THEN CHOOSE p \in from..(Len(s) - 1) :
            /\ s[p + 1] = c
            /\ \A q \in from..(p - 1) : s[q + 1] # c
    ELSE NPOS

\* s.rfind(c)
RFindChar(s, c) ==
    IF \E p \in 0..(Len(s) - 1) : s[p + 1] = c
    THEN CHOOSE p \in 0..(Len(s) - 1) :
            /\ s[p + 1] = c
            /\ \A q \in (p + 1)..(Len(s) - 1) : s[q + 1] # c
    ELSE NPOS

MatchAt(s, pat, p) ==
    /\ p + Len(pat) <= Len(s)
    /\ \A i \in 1..Len(pat) : s[p + i] = pat[i]

\* s.find(pat)
FindStr(s, pat) ==
    IF \E p \in 0..(Len(s) - 1) : MatchAt(s, pat, p)
    THEN CHOOSE p \in 0..(Len(s) - 1) :
            /\ MatchAt(s, pat, p)
            /\ \A q \in 0..(p - 1) : ~MatchAt(s, pat, q)
    ELSE NPOS

\* s.find_first_not_of(" \t\n\r\f\v", from)
FindFirstNotSpace(s, from) ==
    IF \E p \in from..(Len(s) - 1) : s[p + 1] \notin Whitespace
    THEN CHOOSE p \in from..(Len(s) - 1) :
            /\ s[p + 1] \notin Whitespace
            /\ \A q \in from..(p - 1) : s[q + 1] \in Whitespace
    ELSE NPOS

\* s.find_last_not_of(" \t\n\r\f\v")
FindLastNotSpace(s) ==
    IF \E p \in 0..(Len(s) - 1) : s[p + 1] \notin Whitespace
    THEN CHOOSE p \in 0..(Len(s) - 1) :
            /\ s[p + 1] \notin Whitespace
            /\ \A q \in (p + 1)..(Len(s) - 1) : s[q + 1] \in Whitespace
    ELSE NPOS

\* s.substr(pos, n), for pos <= s.length()
Substr(s, pos, n) == SubSeq(s, pos + 1, MinOf(pos + n, Len(s)))

\* ------------------------------------------------------------------------
\* std::stoi and operator<<(int)
\* ------------------------------------------------------------------------

\* Accumulates the digits of s from position p into the magnitude acc.
\* A magnitude above IntMax is not representable: -2 stands for exactly
\* IntMax + 1 (the magnitude of IntMin) and -1 for anything larger.
RECURSIVE StoiDigits(_, _, _)
StoiDigits(s, p, acc) ==
    IF p >= Len(s) \/ ~IsDigit(s[p + 1]) THEN acc
    ELSE LET d == DigitVal(s[p + 1])
             next == IF acc < 0 THEN -1
                     ELSE IF \/ acc < IntMax \div 10
                             \/ (acc = IntMax \div 10 /\ d <= IntMax % 10)
                          THEN acc * 10 + d
                          ELSE IF acc = IntMax \div 10 /\ d = (IntMax % 10) + 1
                               THEN -2
                               ELSE -1
         IN  StoiDigits(s, p + 1, next)

\* std::stoi(s): skips leading whitespace, reads an optional sign and the
\* longest run of digits; throws invalid_argument when there is no digit
\* and out_of_range when the value is no int.
Stoi(s) ==
    LET start == FindFirstNotSpace(s, 0)
        signed == start # NPOS /\ s[start + 1] \in {"-", "+"}
        neg == start # NPOS /\ s[start + 1] = "-"
        dpos == IF signed THEN start + 1 ELSE start
        mag == IF dpos = NPOS THEN 0 ELSE StoiDigits(s, dpos, 0)
    IN  IF dpos = NPOS \/ dpos >= Len(s) \/ ~IsDigit(s[dpos + 1])
        THEN [ok |-> FALSE, val |-> 0, exc |-> "invalid_argument"]
        ELSE IF mag = -1 \/ (mag = -2 /\ ~neg)
             THEN [ok |-> FALSE, val |-> 0, exc |-> "out_of_range"]
             ELSE [ok |-> TRUE,
                   val |-> IF mag = -2 THEN IntMin
                           ELSE IF neg THEN -mag ELSE mag,
                   exc |-> "none"]

\* The decimal digits of n >= 0
RECURSIVE NatToStr(_)
NatToStr(n) ==
    IF n < 10 THEN <<Digits[n + 1]>>
    ELSE NatToStr(n \div 10) \o <<Digits[(n % 10) + 1]>>

\* file << task.getID(): bare decimal digits with a leading '-' if negative
IntToStr(n) ==
    IF n >= 0 THEN NatToStr(n)
    ELSE LET last == (10 - (n % 10)) % 10
             rest == -((n + last) \div 10)
         IN  <<"-">> \o (IF rest = 0 THEN <<>> ELSE NatToStr(rest))
                    \o <<Digits[last + 1]>>

\* ------------------------------------------------------------------------
\* Task and the clock
\* ------------------------------------------------------------------------

\* Task(): id 0, status "todo", the three other strings empty
DefaultTask ==
    [id |-> 0, description |-> <<>>, status |-> StTodo,
     createdAt |-> <<>>, updatedAt |-> <<>>]

\* getCurrentTimestamp(): "%Y-%m-%d %H:%M:%S" of the clock.  The clock of
\* the model counts seconds within one minute of one fixed day.
getCurrentTimestamp(clock) ==
    <<"2","0","2","5","-","0","1","-","0","1"," ","0","0",":","0","0",":">>
        \o <<Digits[(clock \div 10) + 1], Digits[(clock % 10) + 1]>>

\* A constructor whose new tasks start as in-progress
NewTask_inProgress(taskId, taskDescription, clock) ==
    [id |-> taskId, description |-> taskDescription, status |-> StInProgress,
     createdAt |-> getCurrentTimestamp(clock),
     updatedAt |-> getCurrentTimestamp(clock)]

\* Task(taskId, taskDescription)
NewTask(taskId, taskDescription, clock) ==
    [id |-> taskId, description |-> taskDescription, status |-> StTodo,
     createdAt |-> getCurrentTimestamp(clock),
     updatedAt |-> getCurrentTimestamp(clock)]

\* Task::setDescription
setDescription(task, newDescription, clock) ==
    [task EXCEPT !.description = newDescription,
                 !.updatedAt = getCurrentTimestamp(clock)]

\* Task::setStatus: an invalid status leaves the task as it is
setStatus(task, newStatus, clock) ==
    IF newStatus = StTodo \/ newStatus = StInProgress \/ newStatus = StDone
    THEN [task EXCEPT !.status = newStatus,
                      !.updatedAt = getCurrentTimestamp(clock)]
    ELSE task

\* ------------------------------------------------------------------------
\* JSON codec
\* ------------------------------------------------------------------------

\* An escaping that leaves the backslash as it is
RECURSIVE escapeJsonString_quoteOnly(_)
escapeJsonString_quoteOnly(input) ==
    IF input = <<>> THEN <<>>
    ELSE LET c == Head(input)
             out == IF c = DQ THEN <<BS, DQ>> ELSE <<c>>
         IN  out \o escapeJsonString_quoteOnly(Tail(input))

RECURSIVE escapeJsonString(_)
escapeJsonString(input) ==
    IF input = <<>> THEN <<>>
    ELSE LET c == Head(input)
             out == IF c = DQ THEN <<BS, DQ>>
                    ELSE IF c = BS THEN <<BS, BS>>
                    ELSE <<c>>
         IN  out \o escapeJsonString(Tail(input))

\* The loop of unescapeJsonString from character i (1-based) on, with the
\* loop's `escaped` flag.  A backslash that ends the input is dropped.
RECURSIVE UnescapeFrom(_, _, _)
UnescapeFrom(input, i, escaped) ==
    IF i > Len(input) THEN <<>>
    ELSE LET c == input[i] IN
         IF escaped
         THEN (IF c = DQ THEN <<DQ>>
               ELSE IF c = BS THEN <<BS>>
               ELSE <<BS, c>>) \o UnescapeFrom(input, i + 1, FALSE)
         ELSE IF c = BS THEN UnescapeFrom(input, i + 1, TRUE)
              ELSE <<c>> \o UnescapeFrom(input, i + 1, FALSE)

unescapeJsonString(input) == UnescapeFrom(input, 1, FALSE)

\* The string branch of findJsonValue: the position of the closing quote,
\* scanning from valueEnd with the loop's inEscape flag; NPOS if none.
RECURSIVE ClosingQuote(_, _, _)
ClosingQuote(objectStr, valueEnd, inEscape) ==
    IF valueEnd >= Len(objectStr) THEN NPOS
    ELSE IF inEscape THEN ClosingQuote(objectStr, valueEnd + 1, FALSE)
    ELSE IF objectStr[valueEnd + 1] = BS
         THEN ClosingQuote(objectStr, valueEnd + 1, TRUE)
    ELSE IF objectStr[valueEnd + 1] = DQ THEN valueEnd
    ELSE ClosingQuote(objectStr, valueEnd + 1, FALSE)

\* The first position at or after p that holds no whitespace (Len if none)
RECURSIVE SkipSpace(_, _)
SkipSpace(s, p) ==
    IF p < Len(s) /\ s[p + 1] \in Whitespace THEN SkipSpace(s, p + 1) ELSE p

\* The digits-with-optional-leading-minus test of findJsonValue
LooksNumeric(numStr) ==
    /\ numStr # <<>>
    /\ \A i \in 1..Len(numStr) :
          (i = 1 /\ numStr[i] = "-") \/ IsDigit(numStr[i])

NoValue == [val |-> <<>>, warn |-> {}]

\* The string branch of findJsonValue, from the opening quote at valueStart
\* with valueEnd the closing quote found
StringValue(objectStr, valueStart, valueEnd) ==
    IF valueEnd = NPOS
    THEN [val |-> <<>>, warn |-> {"W_malformed_string"}]
    ELSE [val |-> unescapeJsonString(
                     Substr(objectStr, valueStart + 1, valueEnd - valueStart - 1)),
          warn |-> {}]

\* The end of a numeric value: the nearer of the next comma and the next
\* closing brace, the end of the text if there is neither
NumberEnd(objectStr, commaPos, bracePos) ==
    IF commaPos # NPOS /\ bracePos # NPOS THEN MinOf(commaPos, bracePos)
    ELSE IF commaPos # NPOS THEN commaPos
    ELSE IF bracePos # NPOS THEN bracePos
    ELSE Len(objectStr)

\* The trimmed and validated numeric text: numStr is the text up to the
\* end of the value, lastChar its last character that is no whitespace
TrimmedNumber(numStr, lastChar) ==
    IF lastChar = NPOS THEN NoValue
    ELSE IF LooksNumeric(Substr(numStr, 0, lastChar + 1))
         THEN [val |-> Substr(numStr, 0, lastChar + 1), warn |-> {}]
         ELSE [val |-> <<>>, warn |-> {"W_non_numeric"}]

\* The number branch of findJsonValue
NumberValue(numStr) == TrimmedNumber(numStr, FindLastNotSpace(numStr))

\* findJsonValue past the key and the whitespace after it
ValueAt(objectStr, valueStart) ==
    IF valueStart >= Len(objectStr) THEN NoValue
    ELSE IF objectStr[valueStart + 1] = DQ
    THEN StringValue(objectStr, valueStart,
                     ClosingQuote(objectStr, valueStart + 1, FALSE))
    ELSE NumberValue(
            Substr(objectStr, valueStart,
                   NumberEnd(objectStr, FindChar(objectStr, ",", valueStart),
                             FindChar(objectStr, "}", valueStart)) - valueStart))

\* findJsonValue with keyPos the position of the key pattern, patLen its
\* length
ValueOfKeyAt(objectStr, keyPos, patLen) ==
    IF keyPos = NPOS THEN NoValue
    ELSE ValueAt(objectStr, SkipSpace(objectStr, keyPos + patLen))

\* findJsonValue(objectStr, key): the value and what it writes to stderr
findJsonValue(objectStr, key) ==
    ValueOfKeyAt(objectStr, FindStr(objectStr, <<DQ>> \o key \o <<DQ, ":">>),
                 Len(key) + 3)

KeyId == <<"i","d">>
KeyDescription == <<"d","e","s","c","r","i","p","t","i","o","n">>
KeyStatus == <<"s","t","a","t","u","s">>
KeyCreatedAt == <<"c","r","e","a","t","e","d","A","t">>
KeyUpdatedAt == <<"u","p","d","a","t","e","d","A","t">>

\* The status test of loadTasks without the comparison with the three values
StatusAccepted_nonempty(statusStr) == statusStr # <<>>

\* The status test of loadTasks
StatusAccepted(statusStr) ==
    ~(statusStr = <<>> \/ (statusStr # StTodo /\ statusStr # StInProgress
                           /\ statusStr # StDone))

\* The try block of loadTasks once the five values are extracted and the
\* id text is converted: whether the task is pushed, the task, and the
\* diagnostics.  An exception of std::stoi leaves the block at once: the
\* task is dropped and no later check runs.
ValidateFields(idF, parsed, descF, statusF, createdF, updatedF, warns) ==
    IF idF.val # <<>> /\ ~parsed.ok
    THEN [valid |-> FALSE, task |-> DefaultTask,
          stderr |-> warns \cup {IF parsed.exc = "invalid_argument"
                                 THEN "E_id_invalid" ELSE "E_id_range"}]
    ELSE [valid |-> /\ idF.val # <<>>
                    /\ descF.val # <<>>
                    /\ StatusAccepted(statusF.val)
                    /\ createdF.val # <<>>
                    /\ updatedF.val # <<>>,
          task |-> [id |-> IF idF.val = <<>> THEN 0 ELSE parsed.val,
                    description |-> descF.val,
                    status |-> IF StatusAccepted(statusF.val)
                               THEN statusF.val ELSE StTodo,
                    createdAt |-> createdF.val,
                    updatedAt |-> updatedF.val],
          stderr |-> warns
              \cup (IF idF.val = <<>> THEN {"W_id"} ELSE {})
              \cup (IF descF.val = <<>> THEN {"W_description"} ELSE {})
              \cup (IF StatusAccepted(statusF.val) THEN {} ELSE {"W_status"})
              \cup (IF createdF.val = <<>> THEN {"W_createdAt"} ELSE {})
              \cup (IF updatedF.val = <<>> THEN {"W_updatedAt"} ELSE {})]

ExtractedFields(idF, descF, statusF, createdF, updatedF) ==
    ValidateFields(idF, Stoi(idF.val), descF, statusF, createdF, updatedF,
                   idF.warn \cup descF.warn \cup statusF.warn
                       \cup createdF.warn \cup updatedF.warn)

\* The try block of loadTasks for one object body
ParseObject(objectStr) ==
    ExtractedFields(findJsonValue(objectStr, KeyId),
                    findJsonValue(objectStr, KeyDescription),
                    findJsonValue(objectStr, KeyStatus),
                    findJsonValue(objectStr, KeyCreatedAt),
                    findJsonValue(objectStr, KeyUpdatedAt))

Loaded(ts, diag) == [tasks |-> ts, stderr |-> diag]

RECURSIVE ScanObjects(_, _, _, _, _)

\* The loop ending at the first object that is not valid
PushParsed_stop(content, objEnd, endPos, tasks, stderr, obj) ==
    IF obj.valid
    THEN ScanObjects(content, objEnd + 1, endPos, Append(tasks, obj.task),
                     stderr \cup obj.stderr)
    ELSE Loaded(tasks, stderr \cup obj.stderr)

\* The end of one turn of the loop: the task is pushed if it is valid and
\* the scan goes on past the object
PushParsed(content, objEnd, endPos, tasks, stderr, obj) ==
    ScanObjects(content, objEnd + 1, endPos,
                IF obj.valid THEN Append(tasks, obj.task) ELSE tasks,
                stderr \cup obj.stderr)

\* The loop going on past an object with a nested brace
ScanObject_skip(content, objStart, objEnd, nextObjStart, endPos, tasks, stderr) ==
    IF objEnd = NPOS THEN Loaded(tasks, stderr \cup {"E_braces"})
    ELSE IF objEnd >= endPos THEN Loaded(tasks, stderr \cup {"E_beyond"})
    ELSE IF nextObjStart # NPOS /\ objEnd > nextObjStart
    THEN ScanObjects(content, objEnd + 1, endPos, tasks,
                     stderr \cup {"E_braces"})
    ELSE PushParsed(content, objEnd, endPos, tasks, stderr,
                    ParseObject(Substr(content, objStart + 1,
                                       objEnd - objStart - 1)))

\* One turn of the loop with the braces found: the two format errors end
\* the scan with the tasks accumulated so far
ScanObject(content, objStart, objEnd, nextObjStart, endPos, tasks, stderr) ==
    IF objEnd = NPOS \/ (nextObjStart # NPOS /\ objEnd > nextObjStart)
    THEN Loaded(tasks, stderr \cup {"E_braces"})
    ELSE IF objEnd >= endPos
    THEN Loaded(tasks, stderr \cup {"E_beyond"})
    ELSE PushParsed(content, objEnd, endPos, tasks, stderr,
                    ParseObject(Substr(content, objStart + 1,
                                       objEnd - objStart - 1)))

ScanFrom(content, objStart, endPos, tasks, stderr) ==
    IF objStart = NPOS \/ objStart >= endPos
    THEN Loaded(tasks, stderr)
    ELSE ScanObject(content, objStart,
                    FindChar(content, "}", objStart + 1),
                    FindChar(content, "{", objStart + 1),
                    endPos, tasks, stderr)

\* The while loop of loadTasks from currentPos, with the tasks and the
\* diagnostics accumulated so far
ScanObjects(content, currentPos, endPos, tasks, stderr) ==
    IF ~(currentPos < endPos) THEN Loaded(tasks, stderr)
    ELSE ScanFrom(content, FindChar(content, "{", currentPos), endPos,
                  tasks, stderr)

\* The bracket test without the comparison of the two positions
BracketsMissing_lax(startPos, endPos) == startPos = NPOS \/ endPos = NPOS

\* The bracket test of loadTasks
BracketsMissing(startPos, endPos) ==
    startPos = NPOS \/ endPos = NPOS \/ startPos >= endPos

\* loadTasks with the array brackets located
ParseArray(content, startPos, endPos) ==
    IF BracketsMissing(startPos, endPos)
    THEN Loaded(<<>>, {"E_brackets"})
    ELSE ScanObjects(content, startPos + 1, endPos, <<>>, {})

\* loadTasks on the trimmed content
ParseContent(content) ==
    IF content = <<>> \/ content = <<"[", "]">> THEN Loaded(<<>>, {})
    ELSE ParseArray(content, FindChar(content, "[", 0), RFindChar(content, "]"))

\* loadTasks(): the tasks decoded from the backing file and the
\* diagnostics written to stderr.  `exists` is file.is_open().
loadTasks(exists, text) ==
    IF ~exists THEN Loaded(<<>>, {})
    ELSE IF FindFirstNotSpace(text, 0) = NPOS THEN Loaded(<<>>, {})
    ELSE ParseContent(SubSeq(text, FindFirstNotSpace(text, 0) + 1,
                             FindLastNotSpace(text) + 1))

\* The text saveTasks writes for the task at index i (1-based) and after
RECURSIVE SaveFrom(_, _)
SaveFrom(tasks, i) ==
    IF i > Len(tasks) THEN <<>>
    ELSE LET task == tasks[i] IN
         <<" "," ","{",NL>>
         \o <<" "," "," "," ",DQ>> \o KeyId \o <<DQ,":"," ">>
            \o IntToStr(task.id) \o <<",",NL>>
         \o <<" "," "," "," ",DQ>> \o KeyDescription \o <<DQ,":"," ",DQ>>
            \o escapeJsonString(task.description) \o <<DQ,",",NL>>
         \o <<" "," "," "," ",DQ>> \o KeyStatus \o <<DQ,":"," ",DQ>>
            \o escapeJsonString(task.status) \o <<DQ,",",NL>>
         \o <<" "," "," "," ",DQ>> \o KeyCreatedAt \o <<DQ,":"," ",DQ>>
            \o escapeJsonString(task.createdAt) \o <<DQ,",",NL>>
         \o <<" "," "," "," ",DQ>> \o KeyUpdatedAt \o <<DQ,":"," ",DQ>>
            \o escapeJsonString(task.updatedAt) \o <<DQ,NL>>
         \o <<" "," ","}">>
         \o (IF i < Len(tasks) THEN <<",",NL>> ELSE <<NL>>)
         \o SaveFrom(tasks, i + 1)

\* saveTasks(tasks): the text that replaces the backing file.  The file is
\* taken to be writable.
saveTasks(tasks) == <<"[",NL>> \o SaveFrom(tasks, 1) \o <<"]",NL>>

\* ------------------------------------------------------------------------
\* getNextId
\* ------------------------------------------------------------------------

\* getNextId's loop looking at the first task only
MaxIdFrom_first(tasks, i, maxId) ==
    IF tasks # <<>> /\ tasks[1].id > maxId THEN tasks[1].id ELSE maxId

\* The loop of getNextId: the largest id above maxId from index i on
RECURSIVE MaxIdFrom(_, _, _)
MaxIdFrom(tasks, i, maxId) ==
    IF i > Len(tasks) THEN maxId
    ELSE MaxIdFrom(tasks, i + 1,
                   IF tasks[i].id > maxId THEN tasks[i].id ELSE maxId)

\* getNextId without the overflow test: maxId + 1 wraps around
getNextId_wrap(tasks) ==
    IF tasks = <<>> THEN [overflow |-> FALSE, id |-> 1]
    ELSE LET maxId == MaxIdFrom(tasks, 1, 0) IN
         [overflow |-> FALSE, id |-> IF maxId = IntMax THEN IntMin ELSE maxId + 1]

\* getNextId returning the maximum itself
getNextId_noinc(tasks) ==
    IF tasks = <<>> THEN [overflow |-> FALSE, id |-> 1]
    ELSE LET maxId == MaxIdFrom(tasks, 1, 0) IN
         IF maxId >= IntMax THEN [overflow |-> TRUE, id |-> 0]
         ELSE [overflow |-> FALSE, id |-> maxId]

\* getNextId(tasks): the id, or the overflow_error it throws
getNextId(tasks) ==
    IF tasks = <<>> THEN [overflow |-> FALSE, id |-> 1]
    ELSE LET maxId == MaxIdFrom(tasks, 1, 0) IN
         IF maxId >= IntMax THEN [overflow |-> TRUE, id |-> 0]
         ELSE [overflow |-> FALSE, id |-> maxId + 1]

\* ------------------------------------------------------------------------
\* Command operations.  Each yields the collection it leaves in memory,
\* whether it called saveTasks, what it reported, and (add) the id it
\* assigned.
\* ------------------------------------------------------------------------

\* The index of the first task with the given id, 0 if there is none: the
\* task at which the loops of updateTask and markTaskStatus break.
FirstWithId(tasks, id) ==
    IF \E i \in 1..Len(tasks) : tasks[i].id = id
    THEN CHOOSE i \in 1..Len(tasks) :
            /\ tasks[i].id = id
            /\ \A j \in 1..(i - 1) : tasks[j].id # id
    ELSE 0

Outcome(ts, sv, rep, nid) ==
    [tasks |-> ts, saved |-> sv, report |-> rep, newId |-> nid]

\* addTask putting the new task in front
addTask_front(tasks, description, clock) ==
    IF description = <<>> THEN Outcome(tasks, FALSE, "empty_description", 0)
    ELSE LET next == getNextId(tasks) IN
         IF next.overflow THEN Outcome(tasks, FALSE, "overflow", 0)
         ELSE Outcome(<<NewTask(next.id, description, clock)>> \o tasks,
                      TRUE, "ok", next.id)

addTask(tasks, description, clock) ==
    IF description = <<>> THEN Outcome(tasks, FALSE, "empty_description", 0)
    ELSE LET next == getNextId(tasks) IN
         IF next.overflow THEN Outcome(tasks, FALSE, "overflow", 0)
         ELSE Outcome(Append(tasks, NewTask(next.id, description, clock)),
                      TRUE, "ok", next.id)

\* updateTask calling saveTasks whether or not the task was found
updateTask_alwaysSave(tasks, id, newDescription, clock) ==
    IF newDescription = <<>> THEN Outcome(tasks, FALSE, "empty_description", 0)
    ELSE LET i == FirstWithId(tasks, id) IN
         IF i # 0
         THEN Outcome([tasks EXCEPT ![i] = setDescription(@, newDescription, clock)],
                      TRUE, "ok", 0)
         ELSE Outcome(tasks, TRUE, "not_found", 0)

updateTask(tasks, id, newDescription, clock) ==
    IF newDescription = <<>> THEN Outcome(tasks, FALSE, "empty_description", 0)
    ELSE LET i == FirstWithId(tasks, id) IN
         IF i # 0
         THEN Outcome([tasks EXCEPT ![i] = setDescription(@, newDescription, clock)],
                      TRUE, "ok", 0)
         ELSE Outcome(tasks, FALSE, "not_found", 0)

\* deleteTask reporting success without calling saveTasks
deleteTask_noSave(tasks, id) ==
    LET kept == SelectSeq(tasks, LAMBDA t : t.id # id) IN
    IF Len(kept) # Len(tasks)
    THEN Outcome(kept, FALSE, "ok", 0)
    ELSE Outcome(tasks, FALSE, "not_found", 0)

\* std::remove_if followed by erase: the tasks with another id, in order
deleteTask(tasks, id) ==
    LET kept == SelectSeq(tasks, LAMBDA t : t.id # id) IN
    IF Len(kept) # Len(tasks)
    THEN Outcome(kept, TRUE, "ok", 0)
    ELSE Outcome(tasks, FALSE, "not_found", 0)

\* markTaskStatus without the break of its loop: every task with the id
\* gets the status
markTaskStatus_all(tasks, id, status, clock) ==
    IF status # StTodo /\ status # StInProgress /\ status # StDone
    THEN Outcome(tasks, FALSE, "invalid_status", 0)
    ELSE IF \E i \in 1..Len(tasks) : tasks[i].id = id
         THEN Outcome([i \in 1..Len(tasks) |->
                         IF tasks[i].id = id
                         THEN setStatus(tasks[i], status, clock)
                         ELSE tasks[i]],
                      TRUE, "ok", 0)
         ELSE Outcome(tasks, FALSE, "not_found", 0)

markTaskStatus(tasks, id, status, clock) ==
    IF status # StTodo /\ status # StInProgress /\ status # StDone
    THEN Outcome(tasks, FALSE, "invalid_status", 0)
    ELSE LET i == FirstWithId(tasks, id) IN
         IF i # 0
         THEN Outcome([tasks EXCEPT ![i] = setStatus(@, status, clock)],
                      TRUE, "ok", 0)
         ELSE Outcome(tasks, FALSE, "not_found", 0)

\* listTasks(tasks, filter): the tasks it displays, in order
listTasks(tasks, filter) ==
    SelectSeq(tasks, LAMBDA t : filter = <<"a","l","l">> \/ t.status = filter)

\* ------------------------------------------------------------------------
\* Bounds and command-line arguments
\* ------------------------------------------------------------------------

\* Processes started in one behaviour
MaxRuns == 3

\* Seconds the clock advances in one behaviour
MaxClock == 1

\* Objects in a backing file that is only decoded
MaxObjs == 2

FilterAll == <<"a","l","l">>
StBogus == <<"b","o","g","u","s">>

\* argv[2] of add and argv[3] of update
DescArgs == { <<>>, <<"a">>, <<"{">>, <<"b", DQ, BS>> }

\* argv[2] of update, delete and mark-*
IdArgs == { <<"1">>, <<"2">>, <<"x">> }

\* The status markTaskStatus is called with: main passes one of the three
\* valid keywords; the function itself takes any string.
MarkArgs == ValidStatuses \cup {StBogus}

\* argv[2] of list
FilterArgs == { FilterAll, StDone, StBogus }

\* ------------------------------------------------------------------------
\* Backing files written by hand
\* ------------------------------------------------------------------------

\* A member that the object does not have
Absent == <<"absent">>

\* An object of a hand-written file: the text of its id member with the int
\* it denotes (idOk: it denotes one), and its four string members.
ObjDesc(idText, idOk, idVal, desc, st, cr, up) ==
    [idText |-> idText, idOk |-> idOk, idVal |-> idVal,
     description |-> desc, status |-> st, createdAt |-> cr, updatedAt |-> up]

T0 == getCurrentTimestamp(0)

IntMaxText == <<"2","1","4","7","4","8","3","6","4","7">>
IntMaxPlus1Text == <<"2","1","4","7","4","8","3","6","4","8">>

ObjOne == ObjDesc(<<"1">>, TRUE, 1, <<"a">>, StTodo, T0, T0)
ObjTwo == ObjDesc(<<" ","0","2"," ">>, TRUE, 2, <<"a">>, StInProgress, T0, T0)
ObjNeg == ObjDesc(<<"-","7">>, TRUE, -7, <<"b", DQ, BS>>, StDone, T0, T0)
ObjMax == ObjDesc(IntMaxText, TRUE, IntMax, <<"c">>, StInProgress, T0, T0)
ObjBogus == ObjDesc(<<"2">>, TRUE, 2, <<"a">>, StBogus, T0, T0)

GoodObjs == { ObjOne, ObjNeg, ObjMax }

BadObjs ==
    { ObjBogus,
      ObjDesc(<<"2">>, TRUE, 2, <<"a">>, Absent, T0, T0),
      ObjDesc(<<"x">>, FALSE, 0, <<"a">>, StTodo, T0, T0),
      ObjDesc(IntMaxPlus1Text, FALSE, 0, <<"a">>, StTodo, T0, T0),
      ObjDesc(<<"-">>, FALSE, 0, <<"a">>, StTodo, T0, T0),
      ObjDesc(Absent, FALSE, 0, <<"a">>, StTodo, T0, T0),
      ObjDesc(<<"2">>, TRUE, 2, <<>>, StTodo, T0, T0),
      ObjDesc(<<"2">>, TRUE, 2, <<"a">>, StTodo, Absent, T0),
      ObjDesc(<<"2">>, TRUE, 2, <<"a">>, StTodo, T0, <<>>) }

ObjSamples == GoodObjs \cup BadObjs

SeqsUpTo(S, n) == UNION { [1..k -> S] : k \in 0..n }

Quoted(v) == <<DQ>> \o escapeJsonString(v) \o <<DQ>>

Member(key, text) ==
    IF text = Absent THEN <<>> ELSE << <<DQ>> \o key \o <<DQ, ":">> \o text >>

StrMember(key, v) ==
    IF v = Absent THEN <<>> ELSE Member(key, Quoted(v))

RECURSIVE JoinComma(_)
JoinComma(parts) ==
    IF parts = <<>> THEN <<>>
    ELSE IF Len(parts) = 1 THEN parts[1]
    ELSE parts[1] \o <<",">> \o JoinComma(Tail(parts))

\* The text of a flat object: its members in the order saveTasks uses
ObjText(d) ==
    <<"{">> \o JoinComma(Member(KeyId, d.idText)
                          \o StrMember(KeyDescription, d.description)
                          \o StrMember(KeyStatus, d.status)
                          \o StrMember(KeyCreatedAt, d.createdAt)
                          \o StrMember(KeyUpdatedAt, d.updatedAt))
            \o <<"}">>

ObjTexts(objs) == [i \in 1..Len(objs) |-> ObjText(objs[i])]

\* An object with a nested object among its members
NestedObjText ==
    <<"{">> \o JoinComma(Member(KeyId, <<"5">>)
                          \o Member(<<"x">>, <<"{", "}">>)
                          \o StrMember(KeyDescription, <<"a">>)
                          \o StrMember(KeyStatus, StTodo)
                          \o StrMember(KeyCreatedAt, T0)
                          \o StrMember(KeyUpdatedAt, T0))
            \o <<"}">>

\* An object that is not closed before the array's closing bracket
OpenObjText ==
    <<"{">> \o JoinComma(Member(KeyId, <<"5">>)
                          \o StrMember(KeyDescription, <<"a">>))

\* What follows the array's closing bracket in a file of kind "beyond"
\* (the object's closing brace) and "unclosed" (nothing)
AfterArray(kind) == IF kind = "beyond" THEN <<"}">> ELSE <<>>

\* How a hand-written file was put together: flat objects only ("flat");
\* good flat objects, then a malformed object, then `tail` more good objects
\* ("nested", "beyond", "unclosed"); or a text that is no array of objects.
FileText(o) ==
    IF o.kind = "flat"
    THEN <<"[">> \o JoinComma(ObjTexts(o.objs)) \o <<"]", NL>>
    ELSE IF o.kind = "nested"
    THEN <<"[">> \o JoinComma(ObjTexts(o.objs) \o <<NestedObjText>>
                               \o ObjTexts(o.tail)) \o <<"]", NL>>
    ELSE IF o.kind \in {"beyond", "unclosed"}
    THEN <<"[">> \o JoinComma(ObjTexts(o.objs) \o <<OpenObjText>>)
                 \o <<"]">> \o AfterArray(o.kind)
    ELSE o.text

Origin(kind, objs, tail, text) ==
    [kind |-> kind, objs |-> objs, tail |-> tail, text |-> text]

\* Texts that are no array of objects
RawTexts ==
    { <<>>, <<" ", NL>>, <<"[", "]">>, <<" ", "[", "]", NL>>, <<"[", " ", "]">>,
      <<"]", "[">>, <<"[">>, <<"]">>, <<"x">>, <<"{", "}">> }

\* The files a run that only decodes may find
Origins ==
    { Origin("flat", objs, <<>>, <<>>) : objs \in SeqsUpTo(ObjSamples, MaxObjs) }
    \cup { Origin("nested", objs, tail, <<>>) :
             objs \in SeqsUpTo(GoodObjs, MaxObjs - 1),
             tail \in SeqsUpTo(GoodObjs, 1) }
    \cup { Origin(k, objs, <<>>, <<>>) :
             k \in {"beyond", "unclosed"}, objs \in SeqsUpTo(GoodObjs, MaxObjs - 1) }
    \cup { Origin("raw", <<>>, <<>>, t) : t \in RawTexts }

\* The hand-written files that the program goes on to work with
HandOrigins ==
    { Origin("flat", objs, <<>>, <<>>) :
         objs \in { <<ObjOne>>, <<ObjOne, ObjTwo>>, <<ObjOne, ObjOne>>,
                    <<ObjTwo, ObjOne, ObjTwo>>, <<ObjNeg>>, <<ObjNeg, ObjNeg>>,
                    <<ObjOne, ObjMax>>, <<ObjBogus, ObjOne>>,
                    <<ObjTwo, ObjBogus>> } }
    \cup { Origin("nested", <<ObjOne>>, <<ObjTwo>>, <<>>),
           Origin("beyond", <<ObjOne>>, <<>>, <<>>),
           Origin("raw", <<>>, <<>>, <<"]", "[">>),
           Origin("raw", <<>>, <<>>, <<" ", NL>>) }

\* ------------------------------------------------------------------------
\* State
\* ------------------------------------------------------------------------

VARIABLES
    fileExists,   \* tasks.json exists
    file,         \* the text of tasks.json
    tasks,        \* main's std::vector<Task>
    pc,           \* "idle": no process runs; "loaded": main has called
                  \* loadTasks; "done": main has returned
    clock,        \* the host clock
    stderr,       \* diagnostics of the process
    last,         \* what the process was asked and what it reported
    loads,        \* calls of loadTasks by the process
    saves,        \* calls of saveTasks by the process
    runs,         \* processes started so far
    budget,       \* processes a behaviour may start
    issued,       \* ids that add has assigned so far
    written,      \* the collection given to the last saveTasks
    origin,       \* how the file was written, while no saveTasks replaced it
    codec         \* a string on its way through escapeJsonString and
                  \* unescapeJsonString, outside of any file

vars == <<fileExists, file, tasks, pc, clock, stderr, last, loads, saves,
          runs, budget, issued, written, origin, codec>>

\* input: the string; escaped: escapeJsonString of it; output:
\* unescapeJsonString of that; step: how far it has got
Codec(input, escaped, output, step) ==
    [input |-> input, escaped |-> escaped, output |-> output, step |-> step]

NoCodec == Codec(<<>>, <<>>, <<>>, "none")

\* cmd: the command; report: what it reported; target: the id it was given
\* (update, delete, mark); given: the text it was given (add, update: the
\* description; mark: the status); newId: the id it assigned (add); exit:
\* main's exit code; shown: the number of tasks it displayed (list)
Last(cmd, report, target, given, newId, exit, shown) ==
    [cmd |-> cmd, report |-> report, target |-> target, given |-> given,
     newId |-> newId, exit |-> exit, shown |-> shown]

NoLast == Last("none", "none", 0, <<>>, 0, 0, 0)

InitCommon ==
    /\ tasks = <<>>
    /\ pc = "idle"
    /\ clock = 0
    /\ stderr = {}
    /\ last = NoLast
    /\ loads = 0
    /\ saves = 0
    /\ runs = 0
    /\ issued = {}
    /\ written = <<>>

\* The program's first run: there is no tasks.json
Init ==
    /\ InitCommon
    /\ budget = MaxRuns
    /\ codec = NoCodec
    /\ fileExists = FALSE
    /\ file = <<>>
    /\ origin = Origin("absent", <<>>, <<>>, <<>>)

\* A run that finds a tasks.json written or edited by hand; the writing
\* of the file takes the place of one run
InitFile ==
    /\ InitCommon
    /\ budget = MaxRuns - 1
    /\ codec = NoCodec
    /\ fileExists = TRUE
    /\ origin \in HandOrigins
    /\ file = FileText(origin)

\* A single run on a tasks.json written by hand, absent or present
InitDecode ==
    /\ InitCommon
    /\ budget = 1
    /\ codec = NoCodec
    /\ \/ /\ fileExists = TRUE
          /\ origin \in Origins
          /\ file = FileText(origin)
       \/ /\ fileExists = FALSE
          /\ file = <<>>
          /\ origin = Origin("absent", <<>>, <<>>, <<>>)

\* ------------------------------------------------------------------------
\* Actions
\* ------------------------------------------------------------------------

\* The clock advances between two processes (the time at which the first
\* process starts is the clock's origin)
Tick ==
    /\ pc = "idle"
    /\ runs > 0
    /\ clock < MaxClock
    /\ clock' = clock + 1
    /\ UNCHANGED <<fileExists, file, tasks, pc, stderr, last, loads, saves,
                   runs, budget, issued, written, origin, codec>>

\* main without a command (exit 1) or with help (exit 0): usage, no load
Help ==
    /\ pc = "idle"
    /\ runs < budget
    /\ runs' = runs + 1
    /\ \E e \in {0, 1} : last' = Last("help", "usage", 0, <<>>, 0, e, 0)
    /\ pc' = "done"
    /\ UNCHANGED <<fileExists, file, tasks, clock, stderr, loads, saves,
                   budget, issued, written, origin, codec>>

\* main with a command: loadTasks first
Load ==
    /\ pc = "idle"
    /\ runs < budget
    /\ runs' = runs + 1
    /\ LET r == loadTasks(fileExists, file) IN
          /\ tasks' = r.tasks
          /\ stderr' = r.stderr
    /\ pc' = "loaded"
    /\ loads' = loads + 1
    /\ UNCHANGED <<fileExists, file, clock, last, saves, budget, issued,
                   written, origin, codec>>

\* The end of a command operation whose saveTasks opens the file to append
Finish_append(cmd, target, given, r) ==
    /\ tasks' = r.tasks
    /\ IF r.saved
       THEN /\ file' = file \o saveTasks(r.tasks)
            /\ fileExists' = TRUE
            /\ saves' = saves + 1
            /\ written' = r.tasks
            /\ origin' = Origin("saved", <<>>, <<>>, <<>>)
       ELSE UNCHANGED <<file, fileExists, saves, written, origin>>
    /\ stderr' = IF r.report = "ok" THEN stderr ELSE stderr \cup {r.report}
    /\ last' = Last(cmd, r.report, target, given, r.newId, 0, 0)
    /\ pc' = "done"
    /\ UNCHANGED <<clock, loads, runs, budget, codec>>

\* The end of a command operation r: the collection it leaves, its save if
\* it made one, and main returns its exitCode 0.
Finish(cmd, target, given, r) ==
    /\ tasks' = r.tasks
    /\ IF r.saved
       THEN /\ file' = saveTasks(r.tasks)
            /\ fileExists' = TRUE
            /\ saves' = saves + 1
            /\ written' = r.tasks
            /\ origin' = Origin("saved", <<>>, <<>>, <<>>)
       ELSE UNCHANGED <<file, fileExists, saves, written, origin>>
    /\ stderr' = IF r.report = "ok" THEN stderr ELSE stderr \cup {r.report}
    /\ last' = Last(cmd, r.report, target, given, r.newId, 0, 0)
    /\ pc' = "done"
    /\ UNCHANGED <<clock, loads, runs, budget, codec>>

\* A command main rejects before any operation runs: exitCode 1
Reject(cmd, report) ==
    /\ last' = Last(cmd, report, 0, <<>>, 0, 1, 0)
    /\ stderr' = stderr \cup {report}
    /\ pc' = "done"
    /\ UNCHANGED <<fileExists, file, tasks, clock, loads, saves, runs,
                   budget, issued, written, origin, codec>>

\* add <description>
CmdAdd ==
    /\ pc = "loaded"
    /\ \E d \in DescArgs :
          LET r == addTask(tasks, d, clock) IN
             /\ Finish("add", 0, d, r)
             /\ issued' = IF r.report = "ok" THEN issued \cup {r.newId}
                          ELSE issued

\* update <id> <description>
CmdUpdate ==
    /\ pc = "loaded"
    /\ \E a \in IdArgs, d \in DescArgs :
          LET id == Stoi(a) IN
             IF id.ok
             THEN Finish("update", id.val, d, updateTask(tasks, id.val, d, clock))
                     /\ UNCHANGED issued
             ELSE Reject("update", id.exc)

\* delete <id>
CmdDelete ==
    /\ pc = "loaded"
    /\ \E a \in IdArgs :
          LET id == Stoi(a) IN
             IF id.ok
             THEN Finish("delete", id.val, <<>>, deleteTask(tasks, id.val))
                     /\ UNCHANGED issued
             ELSE Reject("delete", id.exc)

\* mark-todo <id>, mark-in-progress <id>, mark-done <id>
CmdMark ==
    /\ pc = "loaded"
    /\ \E a \in IdArgs, st \in MarkArgs :
          LET id == Stoi(a) IN
             IF id.ok
             THEN Finish("mark", id.val, st, markTaskStatus(tasks, id.val, st, clock))
                     /\ UNCHANGED issued
             ELSE Reject("mark", id.exc)

\* list [filter]
CmdList ==
    /\ pc = "loaded"
    /\ \E f \in FilterArgs :
          IF f \in ValidStatuses \cup {FilterAll}
          THEN /\ last' = Last("list", "ok", 0, <<>>, 0, 0,
                               Len(listTasks(tasks, f)))
               /\ pc' = "done"
               /\ UNCHANGED <<fileExists, file, tasks, clock, stderr, loads,
                              saves, runs, budget, issued, written, origin,
                              codec>>
          ELSE Reject("list", "usage")

\* A command with the wrong number of arguments, or an unknown command
CmdUsage ==
    /\ pc = "loaded"
    /\ \E c \in {"add", "unknown"} : Reject(c, "usage")

\* The process is gone, and its memory with it
Exit ==
    /\ pc = "done"
    /\ pc' = "idle"
    /\ tasks' = <<>>
    /\ stderr' = {}
    /\ last' = NoLast
    /\ loads' = 0
    /\ saves' = 0
    /\ UNCHANGED <<fileExists, file, clock, runs, budget, issued, written,
                   origin, codec>>

Next ==
    \/ Tick
    \/ Help
    \/ Load
    \/ CmdAdd
    \/ CmdUpdate
    \/ CmdDelete
    \/ CmdMark
    \/ CmdList
    \/ CmdUsage
    \/ Exit

Spec == Init /\ [][Next]_vars

SpecFile == InitFile /\ [][Next]_vars

SpecDecode == InitDecode /\ [][Next]_vars

\* ------------------------------------------------------------------------
\* The two string conversions on their own: a string is escaped, and the
\* result unescaped, as saveTasks and findJsonValue do with a description
\* ------------------------------------------------------------------------

MaxLen == 3

\* The double quote, the backslash and two ordinary characters, of which
\* 'n' is one that other escapings give a meaning after a backslash
Alphabet == {DQ, BS, "a", "n"}

\* The strings over Alphabet of length up to n
Strings(n) == UNION { [1..k -> Alphabet] : k \in 0..n }

InitEscape ==
    /\ InitCommon
    /\ budget = 0
    /\ fileExists = FALSE
    /\ file = <<>>
    /\ origin = Origin("absent", <<>>, <<>>, <<>>)
    /\ \E S \in Strings(MaxLen) : codec = Codec(S, <<>>, <<>>, "input")

Escape ==
    /\ codec.step = "input"
    /\ codec' = [codec EXCEPT !.escaped = escapeJsonString(codec.input),
                              !.step = "escaped"]
    /\ UNCHANGED <<fileExists, file, tasks, pc, clock, stderr, last, loads,
                   saves, runs, budget, issued, written, origin>>

Unescape ==
    /\ codec.step = "escaped"
    /\ codec' = [codec EXCEPT !.output = unescapeJsonString(codec.escaped),
                              !.step = "output"]
    /\ UNCHANGED <<fileExists, file, tasks, pc, clock, stderr, last, loads,
                   saves, runs, budget, issued, written, origin>>

NextEscape ==
    \/ Escape
    \/ Unescape

SpecEscape == InitEscape /\ [][NextEscape]_vars

\* ------------------------------------------------------------------------
\* Properties
\* ------------------------------------------------------------------------

Ids(ts) == { ts[i].id : i \in 1..Len(ts) }

\* The largest id of a non-empty collection
MaxId(ts) == CHOOSE m \in Ids(ts) : \A n \in Ids(ts) : n <= m

UniqueIds(ts) == \A i, j \in 1..Len(ts) : ts[i].id = ts[j].id => i = j

WellFormed(t) ==
    /\ t.description # <<>>
    /\ t.status \in ValidStatuses
    /\ t.createdAt # <<>>
    /\ t.updatedAt # <<>>

AllWellFormed(ts) == \A i \in 1..Len(ts) : WellFormed(ts[i])

AddDone == pc = "done" /\ last.cmd = "add" /\ last.report = "ok"

\* C1: decoding the text that saveTasks writes for a collection of
\* well-formed tasks (the empty one included) gives that collection back,
\* field for field and in the same order.
C1_RoundTrip ==
    AllWellFormed(written) => loadTasks(TRUE, saveTasks(written)).tasks = written

\* C2 as claimed: getNextId is 1 on the empty collection, one plus the
\* maximum id on every other collection, and the overflow signal when the
\* maximum is the largest int.
C2_MaxPlusOne ==
    IF tasks = <<>> THEN getNextId(tasks) = [overflow |-> FALSE, id |-> 1]
    ELSE IF MaxId(tasks) = IntMax THEN getNextId(tasks).overflow
    ELSE getNextId(tasks) = [overflow |-> FALSE, id |-> MaxId(tasks) + 1]

\* What getNextId is to yield on ts: the maximum counts only from 0 up
ExpectedNextId(ts) ==
    IF ts = <<>> THEN [overflow |-> FALSE, id |-> 1]
    ELSE IF MaxId(ts) = IntMax THEN [overflow |-> TRUE, id |-> 0]
    ELSE IF MaxId(ts) < 0 THEN [overflow |-> FALSE, id |-> 1]
    ELSE [overflow |-> FALSE, id |-> MaxId(ts) + 1]

\* C2 amended: getNextId is 1 on the empty collection and on a collection
\* whose ids are all negative, one plus the maximum id when that maximum is
\* at least 0 and below the largest int, and the overflow signal (no value,
\* no wrap-around) when the maximum is the largest int; add assigns that id
\* and reports the overflow.
C2_NextId ==
    /\ getNextId(tasks) = ExpectedNextId(tasks)
    /\ AddDone => last.newId = ExpectedNextId(SubSeq(tasks, 1, Len(tasks) - 1)).id
    /\ (pc = "done" /\ last.report = "overflow") => MaxId(tasks) = IntMax

C2_Overflow ==
    /\ pc = "done"
    /\ last.cmd = "add"
    /\ last.report = "overflow"
    /\ IntMax \in Ids(tasks)
    /\ saves = 0

\* C3: from an absent backing file on, no two tasks of the collection in
\* memory, of the collection last saved, or of the decoded backing file
\* have the same id.
C3_UniqueIds ==
    /\ UniqueIds(tasks)
    /\ UniqueIds(written)
    /\ pc = "idle" => UniqueIds(loadTasks(fileExists, file).tasks)

C3_TwoTasks ==
    /\ AddDone
    /\ Len(tasks) >= 2
    /\ Len(loadTasks(fileExists, file).tasks) >= 2

\* C4 as claimed: an id that add has assigned once is never assigned again
\* by a later add.
C4_NeverReused ==
    [][(pc = "loaded" /\ last'.cmd = "add" /\ last'.report = "ok")
          => last'.newId \notin issued]_vars

\* C4 amended: add assigns an id greater than every id of the collection
\* it loaded, so an id is never reused while a task with that id or a
\* greater one is present; after the deletion of the task with the maximum
\* id, the next add assigns that id again.
C4_AboveLoaded ==
    AddDone =>
        /\ tasks[Len(tasks)].id = last.newId
        /\ \A i \in 1..(Len(tasks) - 1) : tasks[i].id < last.newId

C4_Reissued ==
    /\ AddDone
    /\ runs = 3
    /\ last.newId = 1
    /\ Len(tasks) = 1

\* C5: every task of the collection in memory and every task given to
\* saveTasks has one of the three statuses, whatever the backing file held
\* and whatever commands were run.
C5_StatusValid ==
    /\ \A i \in 1..Len(tasks) : tasks[i].status \in ValidStatuses
    /\ \A i \in 1..Len(written) : written[i].status \in ValidStatuses

C5_BogusSkipped ==
    /\ pc = "done"
    /\ last.cmd = "mark"
    /\ last.report = "ok"
    /\ "W_status" \in stderr
    /\ saves = 1
    /\ written # <<>>

FailureReports == {"not_found", "empty_description", "invalid_status", "overflow"}

\* C6: a mutating command that fails (id not present, empty description,
\* status outside the three, getNextId overflow) leaves the collection in
\* memory as it was and calls no saveTasks: the backing file is not written.
C6_FailedNoEffect ==
    [][(pc = "loaded" /\ last'.cmd \in {"add", "update", "delete", "mark"}
           /\ last'.report \in FailureReports)
          => /\ tasks' = tasks
             /\ file' = file
             /\ fileExists' = fileExists
             /\ saves' = saves
             /\ written' = written]_vars

C6_NotFound ==
    /\ pc = "done"
    /\ last.cmd = "update"
    /\ last.report = "not_found"
    /\ tasks # <<>>
    /\ saves = 0

\* A string member that is present and not empty
Present(v) == v # Absent /\ v # <<>>

\* The objects from which loadTasks is to make a task
ObjValid(d) ==
    /\ d.idText # Absent
    /\ d.idOk
    /\ Present(d.description)
    /\ d.status \in ValidStatuses
    /\ Present(d.createdAt)
    /\ Present(d.updatedAt)

TaskOf(d) ==
    [id |-> d.idVal, description |-> d.description, status |-> d.status,
     createdAt |-> d.createdAt, updatedAt |-> d.updatedAt]

RECURSIVE ExpectedTasks(_)
ExpectedTasks(objs) ==
    IF objs = <<>> THEN <<>>
    ELSE (IF ObjValid(Head(objs)) THEN <<TaskOf(Head(objs))>> ELSE <<>>)
         \o ExpectedTasks(Tail(objs))

\* C7: from an array of flat objects loadTasks returns, in file order,
\* exactly the objects whose id is an int and whose description, createdAt
\* and updatedAt are not empty and whose status is one of the three; an
\* object failing one of these is left out and its valid siblings before
\* and after it are decoded.
C7_SkipInvalid ==
    (pc = "loaded" /\ origin.kind = "flat") => tasks = ExpectedTasks(origin.objs)

C7_SiblingAfter ==
    /\ pc = "loaded"
    /\ origin.kind = "flat"
    /\ Len(origin.objs) = 2
    /\ ~ObjValid(origin.objs[1])
    /\ ObjValid(origin.objs[2])
    /\ Len(tasks) = 1

\* C8: from k >= 1 well-formed flat objects followed by an object with a
\* nested opening brace, or by one whose closing brace lies beyond the
\* array's closing bracket, loadTasks returns exactly the k tasks before
\* the malformed object and nothing of or after it, reporting the format
\* error without aborting.
C8_PartialRecovery ==
    (pc = "loaded" /\ origin.kind \in {"nested", "beyond"}
        /\ Len(origin.objs) >= 1)
    => /\ tasks = ExpectedTasks(origin.objs)
       /\ Len(tasks) = Len(origin.objs)
       /\ stderr = (IF origin.kind = "nested" THEN {"E_braces"} ELSE {"E_beyond"})

C8_NestedThenGood ==
    /\ pc = "loaded"
    /\ origin.kind = "nested"
    /\ Len(origin.objs) = 1
    /\ Len(origin.tail) = 1
    /\ Len(tasks) = 1

Blank(t) == \A i \in 1..Len(t) : t[i] \in Whitespace

\* The text is "[]" between whitespace
IsEmptyArray(t) ==
    \E i \in 1..(Len(t) - 1) :
        /\ t[i] = "[" /\ t[i + 1] = "]"
        /\ \A j \in 1..Len(t) : j \in {i, i + 1} \/ t[j] \in Whitespace

\* No '[' that comes before a ']': there is no '[', no ']', or the first
\* '[' is not before the last ']'
NoArray(t) ==
    ~\E j \in 1..Len(t) : t[j] = "]" /\ \E i \in 1..(j - 1) : t[i] = "["

\* C9: loadTasks returns an empty collection without any diagnostic when
\* the file is absent, empty, whitespace only or exactly an empty array,
\* and an empty collection with the bracket format error when the text has
\* no '[' before a ']'; it returns in each of these cases.
C9_ArrayLevel ==
    pc = "loaded" =>
       /\ (~fileExists \/ Blank(file) \/ IsEmptyArray(file))
             => (tasks = <<>> /\ stderr = {})
       /\ (fileExists /\ ~Blank(file) /\ NoArray(file))
             => (tasks = <<>> /\ stderr = {"E_brackets"})

C9_Misplaced ==
    /\ pc = "loaded"
    /\ file = <<"]", "[">>
    /\ tasks = <<>>
    /\ "E_brackets" \in stderr

\* The tasks of ts whose id is not id, in order
Without(ts, id) == SelectSeq(ts, LAMBDA t : t.id # id)

\* ts2 is ts1 but for the task at index i, of which only the fields in
\* `changed` and updatedAt may differ
OnlyChanged(ts1, ts2, i, changed) ==
    /\ Len(ts2) = Len(ts1)
    /\ \A j \in 1..Len(ts1) : j # i => ts2[j] = ts1[j]
    /\ ts2[i].id = ts1[i].id
    /\ ts2[i].createdAt = ts1[i].createdAt
    /\ "description" \notin changed => ts2[i].description = ts1[i].description
    /\ "status" \notin changed => ts2[i].status = ts1[i].status

\* C10: add appends the new task and leaves the others as they were;
\* update and mark change the description resp. the status (and updatedAt)
\* of the first task with the id, leaving its place, its id, its createdAt
\* and every other task as they were; delete removes the task with the id
\* (each of them, if a hand-written file gave several tasks that id) and
\* leaves the others as they were, in their order.
C10_Frame ==
    [][(pc = "loaded" /\ last'.report = "ok")
          => /\ last'.cmd = "add" =>
                  /\ Len(tasks') = Len(tasks) + 1
                  /\ SubSeq(tasks', 1, Len(tasks)) = tasks
             /\ last'.cmd = "update" =>
                  /\ OnlyChanged(tasks, tasks', FirstWithId(tasks, last'.target),
                                 {"description"})
             /\ last'.cmd = "mark" =>
                  /\ OnlyChanged(tasks, tasks', FirstWithId(tasks, last'.target),
                                 {"status"})
             /\ last'.cmd = "delete" =>
                  /\ tasks' = Without(tasks, last'.target)
                  /\ Len(tasks') < Len(tasks)
                  /\ UniqueIds(tasks) => Len(tasks') = Len(tasks) - 1
             /\ last'.cmd = "list" => tasks' = tasks]_vars

C10_DeletedFirst ==
    /\ pc = "done"
    /\ last.cmd = "delete"
    /\ last.report = "ok"
    /\ last.target = 1
    /\ Len(tasks) >= 1

\* C11: add with a non-empty description, on a collection for which
\* getNextId does not signal overflow, succeeds and leaves a collection
\* with exactly one more task; the new task has the id that getNextId gives
\* for the collection before (1 when that collection is empty), the given
\* description, the status todo, and createdAt equal to updatedAt.
C11_AddPost ==
    [][(pc = "loaded" /\ last'.cmd = "add" /\ last'.report # "usage"
          /\ last'.given # <<>> /\ ~getNextId(tasks).overflow)
          => /\ last'.report = "ok"
             /\ Len(tasks') = Len(tasks) + 1
             /\ LET t == tasks'[Len(tasks')] IN
                   /\ t.id = getNextId(tasks).id
                   /\ tasks = <<>> => t.id = 1
                   /\ t.id = last'.newId
                   /\ t.description = last'.given
                   /\ t.status = StTodo
                   /\ t.createdAt = t.updatedAt
                   /\ t.createdAt # <<>>]_vars

\* add "b\"\\" on an empty store has made task 1
C11_AddedToEmpty ==
    /\ AddDone
    /\ Len(tasks) = 1
    /\ tasks[1].id = 1
    /\ tasks[1].description = <<"b", DQ, BS>>
    /\ last.given = <<"b", DQ, BS>>

\* C12: for every string S over the double quote, the backslash and
\* ordinary characters, unescapeJsonString(escapeJsonString(S)) is S.
C12_EscapeInverse ==
    codec.step = "output" => codec.output = codec.input

\* The string \"n has been escaped to \\\"n and unescaped
C12_QuoteAfterBackslash ==
    /\ codec.step = "output"
    /\ codec.input = <<BS, DQ, "n">>
    /\ codec.escaped = <<BS, BS, BS, DQ, "n">>

Mutating == {"add", "update", "delete", "mark"}

\* C13: a process calls loadTasks at most once and saveTasks at most once,
\* and saveTasks only after loadTasks; a successful add, update, delete or
\* mark calls saveTasks exactly once, with the collection as the command
\* has changed it, and has done so when it reports success; list, help and
\* every rejected or failed command call saveTasks not at all.
C13_LoadSaveOrder ==
    /\ [](loads \in {0, 1} /\ saves \in {0, 1} /\ saves <= loads)
    /\ [][/\ loads' > loads => (pc = "idle" /\ loads = 0 /\ saves = 0)
          /\ saves' > saves =>
                /\ pc = "loaded" /\ loads = 1 /\ saves = 0
                /\ fileExists' /\ file' = saveTasks(tasks')
          /\ pc' = "done" =>
                /\ loads' = (IF last'.cmd = "help" THEN 0 ELSE 1)
                /\ saves' = (IF last'.cmd \in Mutating /\ last'.report = "ok"
                             THEN 1 ELSE 0)
                /\ saves' = 0 => (file' = file /\ fileExists' = fileExists)]_vars

\* mark-done 1 has succeeded after one load and one save
C13_MarkSavedOnce ==
    /\ pc = "done"
    /\ last.cmd = "mark"
    /\ last.report = "ok"
    /\ loads = 1
    /\ saves = 1
    /\ file = saveTasks(tasks)

\* The number of records of a text: the places where the key "id": stands
Records(t) ==
    Cardinality({ p \in 0..(Len(t) - 1) :
                    MatchAt(t, <<DQ>> \o KeyId \o <<DQ, ":">>, p) })

\* C14: after a successful add, update, delete or mark the file is exactly
\* the encoding of the collection in memory: it has one record for each
\* task in memory and nothing of what the file held before, so the objects
\* that loadTasks skipped or did not reach, and the content it gave up on
\* for its brackets, are no longer in the file.
C14_FullOverwrite ==
    [][(pc = "loaded" /\ last'.cmd \in Mutating /\ last'.report = "ok")
          => /\ fileExists'
             /\ file' = saveTasks(tasks')
             /\ Records(file') = Len(tasks')
             /\ Len(tasks') <= Len(tasks) + 1
             /\ FindStr(file', StBogus) = NPOS]_vars

\* delete 1 on a file of an object with the status bogus and task 1:
\* loadTasks has skipped the first object, and the file is the empty array
C14_SkippedGone ==
    /\ pc = "done"
    /\ last.cmd = "delete"
    /\ last.report = "ok"
    /\ "W_status" \in stderr
    /\ tasks = <<>>
    /\ file = saveTasks(<<>>)

\* The number of tasks of ts with the id
Count(ts, id) == Len(SelectSeq(ts, LAMBDA t : t.id = id))

\* C15: on a collection with several tasks of the same id, delete with
\* that id removes each of them and saves once; update and mark with that
\* id give the first of them, in the order of the collection, the new
\* description resp. status and leave the later ones, like every other
\* task, as they were.
C15_DuplicateIds ==
    [][(pc = "loaded" /\ last'.report = "ok" /\ last'.cmd \in Mutating
          /\ Count(tasks, last'.target) >= 2)
          => LET id == last'.target
                 i == FirstWithId(tasks, id)
             IN /\ last'.cmd = "delete" =>
                     /\ Count(tasks', id) = 0
                     /\ Len(tasks') = Len(tasks) - Count(tasks, id)
                     /\ tasks' = Without(tasks, id)
                     /\ saves' = saves + 1
                     /\ file' = saveTasks(tasks')
                /\ last'.cmd = "update" =>
                     /\ tasks'[i].description = last'.given
                     /\ Len(tasks') = Len(tasks)
                     /\ \A j \in 1..Len(tasks) : j # i => tasks'[j] = tasks[j]
                /\ last'.cmd = "mark" =>
                     /\ tasks'[i].status = last'.given
                     /\ Len(tasks') = Len(tasks)
                     /\ \A j \in 1..Len(tasks) : j # i => tasks'[j] = tasks[j]]_vars

\* update has given the first of two tasks with the same id a description
\* that the second does not have
C15_FirstOnly ==
    /\ pc = "done"
    /\ last.cmd = "update"
    /\ last.report = "ok"
    /\ Len(tasks) = 2
    /\ tasks[1].id = last.target
    /\ tasks[2].id = last.target
    /\ tasks[1].description = last.given
    /\ tasks[2].description # last.given

====
